---- MODULE Spec2Model ----
(***************************************************************************)
(* A model of the schema + object-literal parser of src/idl_parser.cpp.    *)
(* The parser is a recursive-descent parser; the model keeps its member    *)
(* state (registry, builder, side stacks, error) and the position of the   *)
(* parse (driver loop, inside ParseDecl, inside ParseTable/ParseVector).   *)
(* The input text is produced token group by token group by the actions.   *)
(***************************************************************************)
EXTENDS Integers, Sequences, FiniteSets, TLC

VARIABLES structs_,        \* Parser::structs_.vec, in vector order
          enums_,          \* Parser::enums_.vec
          root_struct_def, \* name of the root StructDef, or Null
          builder_,        \* abstract state of the FlatBufferBuilder
          field_stack_,    \* Parser::field_stack_
          struct_stack_,   \* Parser::struct_stack_ (one entry per byte)
          error_,          \* Parser::error_
          line_,           \* Parser::line_
          pc,              \* where the parser is
          cur,             \* the StructDef ParseDecl is filling
          frames,          \* activations of ParseTable / ParseVector
          result,          \* what the last Parse call returned
          nparse,          \* number of Parse calls so far
          source_,         \* Parser::source_, as a sequence of characters
          cursor_,         \* Parser::cursor_, as an index into source_
          token_,          \* Parser::token_
          attribute_       \* Parser::attribute_, as a sequence of characters

\* The lexer state is kept for the character-level lexer only; the
\* statement-level actions draw their tokens directly and leave it alone.
lexvars == <<source_, cursor_, token_, attribute_>>

vars == <<structs_, enums_, root_struct_def, builder_, field_stack_,
          struct_stack_, error_, line_, pc, cur, frames, result, nparse,
          source_, cursor_, token_, attribute_>>

\* ------------------------------------------------------------------ bounds
MaxParses == 2
MaxLine == 2
MaxFields == 3
MaxDepth == 3
MaxEntries == 2
MaxSource == 5

\* --------------------------------------------------------------- constants
Null == "nullptr"
NoError == [line |-> 0, msg |-> "", arg |-> ""]

Max(a, b) == IF a >= b THEN a ELSE b

\* sizeof(CTYPE) of every base type
SizeOf(t) ==
  CASE t \in {"none", "utype", "bool", "byte", "ubyte"} -> 1
    [] t \in {"short", "ushort"} -> 2
    [] t \in {"int", "uint", "float"} -> 4
    [] t \in {"long", "ulong", "double"} -> 8
    [] OTHER -> 4

IsScalar(t) ==
  t \in {"utype", "bool", "byte", "ubyte", "short", "ushort", "int", "uint",
         "long", "ulong", "float", "double"}

IsInteger(t) ==
  t \in {"utype", "bool", "byte", "ubyte", "short", "ushort", "int", "uint",
         "long", "ulong"}

FieldIndexToOffset(i) == ((i + 2) * 2) % 65536

PaddingBytes(buf_size, scalar_size) ==
  (scalar_size - (buf_size % scalar_size)) % scalar_size

\* ---------------------------------------------------------------- registry
Has(tab, name) == \E i \in DOMAIN tab : tab[i].name = name
Get(tab, name) == tab[CHOOSE i \in DOMAIN tab : tab[i].name = name]
SetDef(tab, d) == [i \in DOMAIN tab |-> IF tab[i].name = d.name THEN d ELSE tab[i]]

NoAttr == [present |-> FALSE, type |-> "none", constant |-> 0]
Attr(t, c) == [present |-> TRUE, type |-> t, constant |-> c]

\* StructDef() : fixed(false), predecl(true), sortbysize(true), minalign(1),
\* bytesize(0)
NewStructDef(name) ==
  [name |-> name, predecl |-> TRUE, fixed |-> FALSE, sortbysize |-> TRUE,
   minalign |-> 1, bytesize |-> 0, fields |-> <<>>,
   original_order |-> FALSE, force_align |-> NoAttr]

Type(b, s, e, el) == [base_type |-> b, struct_def |-> s, enum_def |-> e, element |-> el]

IsStruct(tab, type) ==
  type.base_type = "struct" /\ Has(tab, type.struct_def)
    /\ Get(tab, type.struct_def).fixed

InlineSize(tab, type) ==
  IF IsStruct(tab, type) THEN Get(tab, type.struct_def).bytesize
  ELSE SizeOf(type.base_type)

InlineAlignment(tab, type) ==
  IF IsStruct(tab, type) THEN Get(tab, type.struct_def).minalign
  ELSE SizeOf(type.base_type)

LookupCreateStruct(tab, name) ==
  IF Has(tab, name) THEN tab ELSE Append(tab, NewStructDef(name))

\* StructDef::PadLastField
PadLastField(sd, minalign) ==
  LET padding == PaddingBytes(sd.bytesize, minalign)
      n == Len(sd.fields)
  IN [sd EXCEPT !.bytesize = sd.bytesize + padding,
                !.fields = IF n = 0 THEN sd.fields
                           ELSE [sd.fields EXCEPT ![n].padding = padding]]

HasField(sd, fname) == \E i \in DOMAIN sd.fields : sd.fields[i].name = fname
GetField(sd, fname) == sd.fields[CHOOSE i \in DOMAIN sd.fields : sd.fields[i].name = fname]

NewFieldDef(name, type, offset) ==
  [name |-> name, type |-> type, offset |-> offset, constant |-> 0,
   padding |-> 0, deprecated |-> FALSE, has_id |-> FALSE, id |-> 0,
   nested |-> Null]

\* Parser::AddField: the registry after the call, and the error it raised
AddField(tab, sname, fname, type) ==
  LET sd == Get(tab, sname)
      voff == FieldIndexToOffset(Len(sd.fields))
      size == InlineSize(tab, type)
      alignment == InlineAlignment(tab, type)
      sd1 == IF sd.fixed
             THEN PadLastField([sd EXCEPT !.minalign = Max(sd.minalign, alignment)],
                               alignment)
             ELSE sd
      off == IF sd.fixed THEN sd1.bytesize % 65536 ELSE voff
      sd2 == IF sd.fixed THEN [sd1 EXCEPT !.bytesize = sd1.bytesize + size] ELSE sd1
  IN IF HasField(sd, fname)
     THEN [structs |-> SetDef(tab, sd2), err |-> "field already exists"]
     ELSE [structs |-> SetDef(tab, [sd2 EXCEPT !.fields =
                                      Append(sd2.fields, NewFieldDef(fname, type, off))]),
           err |-> ""]


\* --------------------------------------------------------------- ParseType
\* A type annotation of the input: a keyword or an identifier, possibly
\* inside [ ].
KeywordType(n) == [vec |-> FALSE, ident |-> FALSE, name |-> n]
NamedType(n) == [vec |-> FALSE, ident |-> TRUE, name |-> n]
VectorOf(ts) == [ts EXCEPT !.vec = TRUE]

UnderlyingType(e) ==
  IF e.is_union THEN Type("utype", Null, e.name, "none")
  ELSE Type(e.base_type, Null, e.name, "none")

\* Parser::ParseType without the [ ] : the type, the registry after the
\* call (an unknown identifier is pre-declared)
ParseSimpleType(tab, enums, ts) ==
  IF ~ts.ident
  THEN [type |-> Type(ts.name, Null, Null, "none"), structs |-> tab, err |-> ""]
  ELSE IF Has(enums, ts.name)
       THEN LET e == Get(enums, ts.name)
            IN [type |-> IF e.is_union
                         THEN [UnderlyingType(e) EXCEPT !.base_type = "union"]
                         ELSE UnderlyingType(e),
                structs |-> tab, err |-> ""]
       ELSE [type |-> Type("struct", ts.name, Null, "none"),
             structs |-> LookupCreateStruct(tab, ts.name), err |-> ""]

ParseType(tab, enums, ts) ==
  LET sub == ParseSimpleType(tab, enums, ts)
  IN IF ~ts.vec THEN sub
     ELSE IF sub.type.base_type = "union"
          THEN [sub EXCEPT !.err = "vector of union types not supported"]
          ELSE [sub EXCEPT !.type = Type("vector", sub.type.struct_def,
                                         sub.type.enum_def, sub.type.base_type)]

\* -------------------------------------------------------------- ParseField
\* One field of the input:  name : type [= default] [(metadata)] ;
FieldInput(n, ts) ==
  [name |-> n, ts |-> ts, has_default |-> FALSE, default |-> 0,
   deprecated |-> FALSE, has_id |-> FALSE, id |-> 0, nested |-> Null]

SetField(tab, sname, fname, f) ==
  LET sd == Get(tab, sname)
  IN SetDef(tab, [sd EXCEPT !.fields =
       [i \in DOMAIN sd.fields |-> IF sd.fields[i].name = fname THEN f
                                   ELSE sd.fields[i]]])

\* the metadata, deprecated and nested_flatbuffer part of ParseField
ParseFieldMeta(tab, sname, fi) ==
  LET sd == Get(tab, sname)
      f0 == GetField(sd, fi.name)
      f1 == [f0 EXCEPT !.constant = IF fi.has_default THEN fi.default ELSE f0.constant,
                       !.deprecated = fi.deprecated,
                       !.has_id = fi.has_id, !.id = fi.id, !.nested = fi.nested]
      tab1 == SetField(tab, sname, fi.name, f1)
  IN IF fi.deprecated /\ sd.fixed
     THEN [structs |-> tab1, err |-> "can't deprecate fields in a struct"]
     ELSE IF fi.nested # Null
     THEN IF f1.type.base_type # "vector" \/ f1.type.element # "ubyte"
          THEN [structs |-> tab1,
                err |-> "nested_flatbuffer attribute may only apply to a vector of ubyte"]
          ELSE [structs |-> LookupCreateStruct(tab1, fi.nested), err |-> ""]
     ELSE [structs |-> tab1, err |-> ""]

\* the auto-generated type field of a union field gets id - 1
TypeFieldId(tab, sname, fi, isunion) ==
  IF isunion /\ fi.has_id
  THEN LET tname == fi.name \o "_type"
           tf == GetField(Get(tab, sname), tname)
       IN SetField(tab, sname, tname, [tf EXCEPT !.has_id = TRUE, !.id = fi.id - 1])
  ELSE tab

\* Parser::ParseField
ParseField(tab, enums, sname, fi) ==
  LET pt == ParseType(tab, enums, fi.ts)
      type == pt.type
      fixed == Get(pt.structs, sname).fixed
      isunion == type.base_type = "union"
      a1 == IF isunion
            THEN AddField(pt.structs, sname, fi.name \o "_type",
                          UnderlyingType(Get(enums, type.enum_def)))
            ELSE [structs |-> pt.structs, err |-> ""]
      a2 == AddField(a1.structs, sname, fi.name, type)
      m == ParseFieldMeta(a2.structs, sname, fi)
  IN IF pt.err # "" THEN [structs |-> pt.structs, err |-> pt.err]
     ELSE IF fixed /\ ~IsScalar(type.base_type) /\ ~IsStruct(pt.structs, type)
     THEN [structs |-> pt.structs,
           err |-> "structs_ may contain only scalar or struct fields"]
     ELSE IF a1.err # "" THEN a1
     ELSE IF a2.err # "" THEN a2
     ELSE IF fi.has_default /\ ~IsScalar(type.base_type)
     THEN [structs |-> a2.structs, err |-> "type mismatch"]
     ELSE IF m.err # "" THEN m
     ELSE [structs |-> TypeFieldId(m.structs, sname, fi, isunion), err |-> ""]

\* --------------------------------------------------------------- ParseDecl
DeclInput(n, fixed) ==
  [name |-> n, fixed |-> fixed, original_order |-> FALSE, force_align |-> NoAttr]

RemoveDef(tab, name) == SelectSeq(tab, LAMBDA d : d.name # name)

\* ParseDecl up to the { of the body
DeclBegin(tab, di) ==
  LET tab1 == LookupCreateStruct(tab, di.name)
      sd == Get(tab1, di.name)
      sd1 == [sd EXCEPT !.predecl = FALSE, !.fixed = di.fixed,
                        !.original_order = di.original_order,
                        !.force_align = di.force_align,
                        !.sortbysize = ~di.original_order /\ ~di.fixed]
  IN IF ~sd.predecl
     THEN [structs |-> tab1, err |-> "datatype already exists"]
     ELSE [structs |-> Append(RemoveDef(tab1, di.name), sd1), err |-> ""]

IsPowerOfTwo(n) == n \in {1, 2, 4, 8, 16, 32, 64, 128, 256}

\* the force_align check of ParseDecl
ForceAlignOK(sd) ==
  LET fa == sd.force_align
  IN fa.type = "int" /\ fa.constant >= sd.minalign /\ fa.constant <= 256
       /\ IsPowerOfTwo(fa.constant)

Orders(n) == {p \in [1..n -> 1..n] : \A i, j \in 1..n : i # j => p[i] # p[j]}

\* what std::sort by id may leave: any order with non-decreasing ids
SortedById(fields) ==
  {[i \in DOMAIN fields |-> fields[p[i]]] :
     p \in {q \in Orders(Len(fields)) :
              \A i, j \in DOMAIN fields : i < j => fields[q[i]].id <= fields[q[j]].id}}

\* a verification loop that counts ids from 1
FirstBadIdFromOne(fields) ==
  IF \E i \in DOMAIN fields : fields[i].id # i
  THEN CHOOSE i \in DOMAIN fields :
         fields[i].id # i /\ \A j \in 1..(i - 1) : fields[j].id = j
  ELSE 0

\* index of the first field whose id is not its position, 0 if none
FirstBadId(fields) ==
  IF \E i \in DOMAIN fields : fields[i].id # i - 1
  THEN CHOOSE i \in DOMAIN fields :
         fields[i].id # i - 1 /\ \A j \in 1..(i - 1) : fields[j].id = j - 1
  ELSE 0

\* the verification loop: offsets are reassigned up to the first bad id
ReassignOffsets(fields) ==
  LET bad == FirstBadId(fields)
  IN [i \in DOMAIN fields |->
        IF bad = 0 \/ i < bad
        THEN [fields[i] EXCEPT !.offset = FieldIndexToOffset(i - 1)]
        ELSE fields[i]]

NumIdFields(fields) == Cardinality({i \in DOMAIN fields : fields[i].has_id})

\* the manual id part of ParseDecl: the possible outcomes
CheckIds(sd) ==
  IF sd.fixed \/ Len(sd.fields) = 0 \/ NumIdFields(sd.fields) = 0
  THEN {[sd |-> sd, err |-> ""]}
  ELSE IF NumIdFields(sd.fields) # Len(sd.fields)
  THEN {[sd |-> sd,
         err |-> "either all fields or no fields must have an 'id' attribute"]}
  ELSE {[sd |-> [sd EXCEPT !.fields = ReassignOffsets(s)],
         err |-> IF FirstBadId(s) = 0 THEN ""
                 ELSE "field id's must be consecutive from 0"] :
          s \in SortedById(sd.fields)}

\* ParseDecl from the } of the body on: the possible outcomes
DeclEnd(tab, sname) ==
  LET sd == Get(tab, sname)
      forced == sd.fixed /\ sd.force_align.present
      sd1 == IF forced THEN [sd EXCEPT !.minalign = sd.force_align.constant] ELSE sd
      sd2 == PadLastField(sd1, sd1.minalign)
  IN IF forced /\ ~ForceAlignOK(sd)
     THEN {[structs |-> tab, err |-> "force_align must be a power of two integer"]}
     ELSE {[structs |-> SetDef(tab, r.sd), err |-> r.err] : r \in CheckIds(sd2)}


\* --------------------------------------------------------------- ParseEnum
\* An enum or union of the input; base is the keyword after the colon
EnumInput(n, is_union, base, vals) ==
  [name |-> n, is_union |-> is_union, base_type |-> base, bit_flags |-> FALSE,
   vals |-> vals]
EnumValInput(n) == [name |-> n, has_value |-> FALSE, value |-> 0]

EnumVal(n, v) == [name |-> n, value |-> v, struct_def |-> Null]

\* the do-while loop of ParseEnum over the enumerators, from the i-th on
RECURSIVE ParseEnumVals(_, _, _, _)
ParseEnumVals(tab, e, vals, i) ==
  IF i > Len(vals) THEN [enum |-> e, structs |-> tab, err |-> ""]
  ELSE LET vi == vals[i]
           prevsize == Len(e.vals)
           value == IF prevsize > 0 THEN e.vals[prevsize].value + 1 ELSE 0
           tab1 == IF e.is_union THEN LookupCreateStruct(tab, vi.name) ELSE tab
           ev == [name |-> vi.name,
                  value |-> IF vi.has_value THEN vi.value ELSE value,
                  struct_def |-> IF e.is_union THEN vi.name ELSE Null]
           e1 == [e EXCEPT !.vals = Append(e.vals, ev)]
       IN IF Has(e.vals, vi.name)
          THEN [enum |-> e, structs |-> tab, err |-> "enum value already exists"]
          ELSE IF vi.has_value /\ prevsize > 0 /\ e.vals[prevsize].value >= ev.value
          THEN [enum |-> e1, structs |-> tab1,
                err |-> "enum values must be specified in ascending order"]
          ELSE ParseEnumVals(tab1, e1, vals, i + 1)

\* Parser::ParseEnum up to the } of the body
ParseEnumBody(tab, enums, ei) ==
  LET e0 == [name |-> ei.name, is_union |-> ei.is_union,
             base_type |-> IF ei.is_union THEN "utype" ELSE ei.base_type,
             bit_flags |-> ei.bit_flags,
             vals |-> IF ei.is_union THEN <<EnumVal("NONE", 0)>> ELSE <<>>]
      r == ParseEnumVals(tab, e0, ei.vals, 1)
  IN IF Has(enums, ei.name)
     THEN [enums |-> enums, structs |-> tab, err |-> "enum already exists"]
     ELSE IF ~ei.is_union /\ ~IsInteger(ei.base_type)
     THEN [enums |-> Append(enums, [e0 EXCEPT !.vals = <<>>]), structs |-> tab,
           err |-> "underlying enum type must be integral"]
     ELSE [enums |-> Append(enums, r.enum), structs |-> r.structs, err |-> r.err]

\* a range check that lets the bit width itself through
FlagInRangeInclusive(base, v) == v >= 0 /\ v <= SizeOf(base) * 8

\* static_cast<size_t>(value) < SizeOf(underlying_type.base_type) * 8
FlagInRange(base, v) == v >= 0 /\ v < SizeOf(base) * 8

\* the bit_flags loop of ParseEnum over the enumerators, from the i-th on
RECURSIVE BitFlagsFrom(_, _)
BitFlagsFrom(e, i) ==
  IF i > Len(e.vals) THEN [enum |-> e, err |-> ""]
  ELSE IF ~FlagInRange(e.base_type, e.vals[i].value)
  THEN [enum |-> e, err |-> "bit flag out of range of underlying integral type"]
  ELSE BitFlagsFrom([e EXCEPT !.vals[i].value = 2 ^ (e.vals[i].value)], i + 1)

\* Parser::ParseEnum from the } of the body on
BitFlags(e) ==
  IF e.bit_flags THEN BitFlagsFrom(e, 1) ELSE [enum |-> e, err |-> ""]

\* Parser::ParseEnum
ParseEnum(tab, enums, ei) ==
  LET r == ParseEnumBody(tab, enums, ei)
      bf == BitFlags(Get(r.enums, ei.name))
  IN IF r.err # "" THEN r
     ELSE [enums |-> SetDef(r.enums, bf.enum), structs |-> r.structs, err |-> bf.err]

\* ------------------------------------------------------------------ driver
\* FlatBufferBuilder: whether GetSize() > 0, the number of Finish calls and
\* the Add / Push calls received since the last Clear
EmptyBuilder == [used |-> FALSE, roots |-> 0, calls |-> <<>>]

\* no source text is held
LexerIdle ==
  /\ source_ = <<>>
  /\ cursor_ = 1
  /\ token_ = "none"
  /\ attribute_ = <<>>

Init ==
  /\ LexerIdle
  /\ structs_ = <<>>
  /\ enums_ = <<>>
  /\ root_struct_def = Null
  /\ builder_ = EmptyBuilder
  /\ field_stack_ = <<>>
  /\ struct_stack_ = <<>>
  /\ error_ = NoError
  /\ line_ = 1
  /\ pc = "idle"
  /\ cur = Null
  /\ frames = <<>>
  /\ result = "none"
  /\ nparse = 0

\* throw msg, caught in Parse: error_ = "line <N>: <msg>", return false
Fail(msg, arg) ==
  /\ error_' = [line |-> line_, msg |-> msg, arg |-> arg]
  /\ result' = "false"
  /\ pc' = "idle"
  /\ cur' = Null
  /\ frames' = <<>>

\* Parser::Parse up to the first token
ParseStart ==
  /\ pc = "idle"
  /\ nparse < MaxParses
  /\ nparse' = nparse + 1
  /\ line_' = 1
  /\ error_' = NoError
  /\ builder_' = EmptyBuilder
  /\ result' = "none"
  /\ pc' = "top"
  /\ UNCHANGED <<structs_, enums_, root_struct_def, field_stack_, struct_stack_,
                 cur, frames>>
  /\ UNCHANGED lexvars

\* Parser::Next skipping a newline between two top-level constructs
Newline ==
  /\ pc = "top"
  /\ line_ < MaxLine
  /\ line_' = line_ + 1
  /\ UNCHANGED <<structs_, enums_, root_struct_def, builder_, field_stack_,
                 struct_stack_, error_, pc, cur, frames, result, nparse>>
  /\ UNCHANGED lexvars

\* ParseDecl:  table|struct name metadata {
DeclBeginStmt(menu) ==
  /\ pc = "top"
  /\ \E di \in menu :
       LET r == DeclBegin(structs_, di)
       IN /\ structs_' = r.structs
          /\ IF r.err = ""
             THEN /\ pc' = "decl"
                  /\ cur' = di.name
                  /\ UNCHANGED <<error_, result, frames>>
             ELSE Fail(r.err, di.name)
  /\ UNCHANGED <<enums_, root_struct_def, builder_, field_stack_, struct_stack_,
                 line_, nparse>>
  /\ UNCHANGED lexvars

\* ParseDecl: one ParseField of the loop over the body
ParseFieldStmt(menu) ==
  /\ pc = "decl"
  /\ Len(Get(structs_, cur).fields) < MaxFields
  /\ \E fi \in menu :
       LET r == ParseField(structs_, enums_, cur, fi)
       IN /\ structs_' = r.structs
          /\ IF r.err = ""
             THEN UNCHANGED <<error_, result, pc, cur, frames>>
             ELSE Fail(r.err, fi.name)
  /\ UNCHANGED <<enums_, root_struct_def, builder_, field_stack_, struct_stack_,
                 line_, nparse>>
  /\ UNCHANGED lexvars

\* ParseDecl: the } of the body and what follows the loop
DeclEndStmt ==
  /\ pc = "decl"
  /\ \E r \in DeclEnd(structs_, cur) :
       /\ structs_' = r.structs
       /\ IF r.err = ""
          THEN /\ pc' = "top"
               /\ cur' = Null
               /\ UNCHANGED <<error_, result, frames>>
          ELSE Fail(r.err, cur)
  /\ UNCHANGED <<enums_, root_struct_def, builder_, field_stack_, struct_stack_,
                 line_, nparse>>
  /\ UNCHANGED lexvars

\* the names of the union members that are structs, in registry order
FixedMembers(tab, enums) ==
  {v.name : v \in UNION {{e.vals[i] : i \in DOMAIN e.vals} :
                           e \in {enums[k] : k \in {j \in DOMAIN enums : enums[j].is_union}}}}
    \cap {tab[i].name : i \in {j \in DOMAIN tab : tab[j].fixed}}

\* a check that looks at the front of the registry only
FrontPredecl(tab) ==
  IF tab # <<>> /\ tab[1].predecl THEN tab[1].name ELSE Null

\* Parse: the first StructDef of structs_.vec that is still predecl
FirstPredecl(tab) ==
  IF \E i \in DOMAIN tab : tab[i].predecl
  THEN tab[CHOOSE i \in DOMAIN tab :
             tab[i].predecl /\ \A j \in 1..(i - 1) : ~tab[j].predecl].name
  ELSE Null

\* Parser::Parse at the end of the input: the checks after the loop, and
\* the return (a build with assertions aborts on a non-empty struct_stack_)
EofStmt ==
  /\ pc = "top"
  /\ IF FirstPredecl(structs_) # Null
     THEN Fail("type referenced but not defined", FirstPredecl(structs_))
     ELSE IF FixedMembers(structs_, enums_) # {}
     THEN \E n \in FixedMembers(structs_, enums_) :
            Fail("only tables can be union elements", n)
     ELSE /\ \E how \in {"true"} \cup (IF struct_stack_ = <<>> THEN {} ELSE {"abort"}) :
               result' = how
          /\ pc' = "idle"
          /\ UNCHANGED <<error_, cur, frames>>
  /\ UNCHANGED <<structs_, enums_, root_struct_def, builder_, field_stack_,
                 struct_stack_, line_, nparse>>
  /\ UNCHANGED lexvars

\* ------------------------------------------------------------ value parser
\* An activation of ParseTable (kind "table", for def) or of ParseVector
\* (kind "vector", of elem): n is fieldn / count, expect what the next
\* token is read as, pfield the field whose value a callee is parsing.
TableFrame(def) ==
  [kind |-> "table", def |-> def, elem |-> Type("none", Null, Null, "none"),
   n |-> 0, expect |-> "key", pfield |-> Null]
VectorFrame(elem) ==
  [kind |-> "vector", def |-> Null, elem |-> elem, n |-> 0, expect |-> "elem",
   pfield |-> Null]

\* std::pair<Value, FieldDef *>: the FieldDef is named by struct and field
Entry(type, offset, constant, sdef, field) ==
  [type |-> type, offset |-> offset, constant |-> constant, sdef |-> sdef,
   field |-> field]

\* the first token of a value
IntToken(v) == [tok |-> "int", int |-> v, name |-> ""]
IdentToken(n) == [tok |-> "ident", int |-> 0, name |-> n]
PunctToken(t) == [tok |-> t, int |-> 0, name |-> ""]

\* what a step of the value parser leaves behind
Out(status, msg, arg, fr, fs, ss, b) ==
  [status |-> status, msg |-> msg, arg |-> arg, frames |-> fr,
   field_stack |-> fs, struct_stack |-> ss, builder |-> b]

Top(fr) == fr[Len(fr)]
Pop(fr) == SubSeq(fr, 1, Len(fr) - 1)
SetTop(fr, f) == [fr EXCEPT ![Len(fr)] = f]

\* CheckBitsFit: whether val passes for a field of the given width (the
\* values of the model are all below 2^31 in magnitude)
BitsFit(val, bits) ==
  \/ bits >= 32
  \/ val \in 0..(2^bits - 1)
  \/ val \in (0 - 2^bits)..(0 - 1)

\* atot<CTYPE> for the base type: does the conversion raise
AtotFits(base, val) ==
  IF IsInteger(base) \/ base = "none"
  THEN BitsFit(val, SizeOf(base) * 8)
  ELSE TRUE

\* EnumDef::ReverseLookup: the enumerator with that value, or Null
ReverseLookup(e, idx) ==
  IF \E i \in DOMAIN e.vals : e.vals[i].value = idx
  THEN e.vals[CHOOSE i \in DOMAIN e.vals : e.vals[i].value = idx]
  ELSE EnumVal(Null, 0)

\* FlatBufferBuilder: a call, and whether it stores something (AddElement
\* stores nothing when the value equals the default)
Called(b, call) == [b EXCEPT !.used = TRUE, !.calls = Append(b.calls, call)]
Call(op, sdef, field, value, default) ==
  [op |-> op, sdef |-> sdef, field |-> field, stored |-> value # default]

\* the value is complete: ParseTable / ParseVector push it and count it
PushValue(fr, fs, ss, b, e) ==
  LET top == Top(fr)
  IN Out("ok", "", "", 
         SetTop(fr, [top EXCEPT !.n = top.n + 1, !.pfield = Null,
                           !.expect = IF top.kind = "table" THEN "sep" ELSE "vsep"]),
         Append(fs, e), ss, b)

\* ParseTable / ParseVector return off to their caller: to ParseAnyValue in
\* a table or a vector, or to Parse, which finishes the buffer
Return(fr, fs, ss, b, off) ==
  IF fr = <<>>
  THEN Out("ok", "", "", fr, fs, ss, [b EXCEPT !.used = TRUE, !.roots = b.roots + 1])
  ELSE LET top == Top(fr)
       IN IF top.kind = "table"
          THEN LET f == GetField(Get(structs_, top.def), top.pfield)
               IN PushValue(fr, fs, ss, b, Entry(f.type, f.offset, off, top.def, f.name))
          ELSE PushValue(fr, fs, ss, b, Entry(top.elem, 0, off, Null, Null))

\* Parser::ParseIntegerFromString for one word
EnumWord(type, word) ==
  IF type.enum_def # Null
  THEN IF Has(Get(enums_, type.enum_def).vals, word)
       THEN [err |-> "", value |-> Get(Get(enums_, type.enum_def).vals, word).value]
       ELSE [err |-> "unknown enum value", value |-> 0]
  ELSE IF ~IsInteger(type.base_type)
       THEN [err |-> "not a valid value for this field", value |-> 0]
       ELSE [err |-> "enum values need to be qualified by an enum type", value |-> 0]

\* the union case of ParseAnyValue up to the call of ParseTable: the
\* StructDef the payload is parsed as
UnionMember(fs, type) ==
  IF fs = <<>> THEN [status |-> "fail", msg |-> "missing type field before this union value", def |-> Null]
  ELSE LET back == fs[Len(fs)]
       IN IF back.field = Null
          THEN [status |-> "crash", msg |-> "null FieldDef", def |-> Null]
          ELSE IF GetField(Get(structs_, back.sdef), back.field).type.base_type # "utype"
          THEN [status |-> "fail", msg |-> "missing type field before this union value", def |-> Null]
          ELSE IF ~BitsFit(back.constant, 8)
          THEN [status |-> "fail", msg |-> "constant does not fit", def |-> Null]
          ELSE LET ev == ReverseLookup(Get(enums_, type.enum_def), back.constant % 256)
               IN IF ev.name = Null
                  THEN [status |-> "fail", msg |-> "illegal type id for", def |-> Null]
                  ELSE [status |-> "ok", msg |-> "", def |-> ev.struct_def]

\* Parser::ParseAnyValue for a value of that type starting with token vt;
\* e is the entry the caller pushes once the value is complete
ParseAnyValue(fr, fs, ss, b, e, vt) ==
  LET base == e.type.base_type
      top == Top(fr)
      pending == SetTop(fr, [top EXCEPT !.pfield = e.field])
      m == UnionMember(fs, e.type)
      w == EnumWord(e.type, vt.name)
  IN CASE base = "union" ->
            IF m.status # "ok" THEN Out(m.status, m.msg, e.field, fr, fs, ss, b)
            ELSE IF vt.tok # "{" THEN Out("fail", "expecting: {", e.field, fr, fs, ss, b)
            ELSE Out("ok", "", "", Append(pending, TableFrame(m.def)), fs, ss, b)
       [] base = "struct" ->
            IF vt.tok # "{" THEN Out("fail", "expecting: {", e.field, fr, fs, ss, b)
            ELSE Out("ok", "", "", Append(pending, TableFrame(e.type.struct_def)), fs, ss, b)
       [] base = "string" ->
            IF vt.tok # "str"
            THEN Out("fail", "expecting: string constant", e.field, fr, fs, ss, b)
            ELSE PushValue(fr, fs, ss, Called(b, Call("CreateString", e.sdef, e.field, 0, 0)),
                           [e EXCEPT !.constant = Len(b.calls) + 1])
       [] base = "vector" ->
            IF vt.tok # "[" THEN Out("fail", "expecting: [", e.field, fr, fs, ss, b)
            ELSE Out("ok", "", "",
                     Append(pending, VectorFrame(Type(e.type.element, e.type.struct_def,
                                                      e.type.enum_def, "none"))),
                     fs, ss, b)
       [] OTHER ->
            IF vt.tok \in {"ident", "str"}
            THEN IF w.err # "" THEN Out("fail", w.err, vt.name, fr, fs, ss, b)
                 ELSE PushValue(fr, fs, ss, b, [e EXCEPT !.constant = w.value])
            ELSE IF vt.tok = "int"
            THEN PushValue(fr, fs, ss, b, [e EXCEPT !.constant = vt.int])
            ELSE Out("fail", "cannot parse value starting with", vt.tok, fr, fs, ss, b)

\* ParseTable: one  name :  of the loop and the start of its value
TableKey(fr, fs, ss, b, key, vt) ==
  LET top == Top(fr)
      sd == Get(structs_, top.def)
      f == GetField(sd, key)
  IN IF key = "}"
     THEN Out("fail", "expecting: identifier instead got: }", top.def, fr, fs, ss, b)
     ELSE IF top.def = Null THEN Out("crash", "null StructDef", key, fr, fs, ss, b)
     ELSE IF ~HasField(sd, key) THEN Out("fail", "unknown field", key, fr, fs, ss, b)
     ELSE IF sd.fixed /\ (top.n >= Len(sd.fields) \/ sd.fields[top.n + 1].name # key)
     THEN Out("fail", "struct field appearing out of order", key, fr, fs, ss, b)
     ELSE ParseAnyValue(fr, fs, ss, b, Entry(f.type, f.offset, f.constant, top.def, key), vt)

Reverse(q) == [i \in 1..Len(q) |-> q[Len(q) + 1 - i]]
LastN(q, n) == SubSeq(q, Len(q) - n + 1, Len(q))
\* a loop that stops one pop_back early
DropLastButOne(q, n) == SubSeq(q, 1, Len(q) - n + 1)

\* n times pop_back
DropLastN(q, n) == SubSeq(q, 1, Len(q) - n)
Bytes(owner, n) == [i \in 1..n |-> owner]

\* a loop that doubles from 1 up to sizeof(largest_scalar_t)
AscendingSizeClasses == <<1, 2, 4, 8>>

\* sizeof(largest_scalar_t) and the halving loop of ParseTable
SizeClasses == <<8, 4, 2, 1>>

RECURSIVE BySize(_, _, _)
BySize(rev, sizes, k) ==
  IF k > Len(sizes) THEN <<>>
  ELSE SelectSeq(rev, LAMBDA e : SizeOf(e.type.base_type) = sizes[k])
         \o BySize(rev, sizes, k + 1)

\* the order in which the double loop of ParseTable visits the entries that
\* the table pushed (given in the order they were pushed)
EmitOrder(entries, sortbysize) ==
  IF sortbysize THEN BySize(Reverse(entries), SizeClasses, 1) ELSE Reverse(entries)

\* Parser::SerializeStruct
SerializeStruct(sd, e, ss, b) ==
  IF Len(ss) - e.constant # sd.bytesize
  THEN [status |-> "crash", msg |-> "assert struct_stack_.size() - off == bytesize",
        ss |-> ss, b |-> b]
  ELSE [status |-> "ok", msg |-> "", ss |-> DropLastN(ss, sd.bytesize),
        b |-> Called(b, Call("AddStruct", e.sdef, e.field, e.constant, 0))]

\* the body of the double loop of ParseTable for one entry
EmitEntry(e, ss, b) ==
  LET f == GetField(Get(structs_, e.sdef), e.field)
      base == e.type.base_type
  IN IF e.field = Null
     THEN [status |-> "crash", msg |-> "null FieldDef", ss |-> ss, b |-> b]
     ELSE IF IsScalar(base) \/ base = "none"
     THEN IF AtotFits(base, e.constant) /\ AtotFits(base, f.constant)
          THEN [status |-> "ok", msg |-> "", ss |-> ss,
                b |-> Called(b, Call("AddElement", e.sdef, e.field, e.constant, f.constant))]
          ELSE [status |-> "fail", msg |-> "constant does not fit", ss |-> ss, b |-> b]
     ELSE IF IsStruct(structs_, f.type)
     THEN SerializeStruct(Get(structs_, f.type.struct_def), e, ss, b)
     ELSE [status |-> "ok", msg |-> "", ss |-> ss,
           b |-> Called(b, Call("AddOffset", e.sdef, e.field, e.constant, 0))]

RECURSIVE Emit(_, _, _, _)
Emit(order, i, ss, b) ==
  IF i > Len(order) THEN [status |-> "ok", msg |-> "", ss |-> ss, b |-> b]
  ELSE LET r == EmitEntry(order[i], ss, b)
       IN IF r.status # "ok" THEN r ELSE Emit(order, i + 1, r.ss, r.b)

\* ParseTable from the } on: emit, pop, end the struct or table, return
TableClose(fr, fs, ss, b) ==
  LET top == Top(fr)
      sd == Get(structs_, top.def)
      em == Emit(EmitOrder(LastN(fs, top.n), sd.sortbysize), 1, ss, b)
      fs1 == DropLastN(fs, top.n)
  IN IF sd.fixed /\ top.n # Len(sd.fields)
     THEN Out("fail", "incomplete struct initialization", top.def, fr, fs, ss, b)
     ELSE IF em.status # "ok" THEN Out(em.status, em.msg, top.def, fr, fs, em.ss, em.b)
     ELSE IF sd.fixed
     THEN Return(Pop(fr), fs1, em.ss \o Bytes(sd.name, sd.bytesize), em.b, Len(em.ss))
     ELSE Return(Pop(fr), fs1, em.ss,
                 Called(em.b, Call("EndTable", top.def, Null, top.n, 0)),
                 Len(em.b.calls) + 1)

\* the second loop of ParseVector: serialize and pop the back, count times
RECURSIVE VectorEmit(_, _, _, _)
VectorEmit(fs, ss, b, count) ==
  IF count = 0 THEN [status |-> "ok", msg |-> "", fs |-> fs, ss |-> ss, b |-> b]
  ELSE LET e == fs[Len(fs)]
           r == SerializeStruct(Get(structs_, e.type.struct_def), e, ss, b)
       IN IF IsStruct(structs_, e.type)
          THEN IF r.status # "ok"
               THEN [status |-> r.status, msg |-> r.msg, fs |-> fs, ss |-> r.ss, b |-> r.b]
               ELSE VectorEmit(DropLastN(fs, 1), r.ss, r.b, count - 1)
          ELSE IF ~AtotFits(e.type.base_type, e.constant)
          THEN [status |-> "fail", msg |-> "constant does not fit", fs |-> fs,
                ss |-> ss, b |-> b]
          ELSE VectorEmit(DropLastN(fs, 1), ss,
                          Called(b, Call("PushElement", Null, Null, e.constant, 0)),
                          count - 1)

\* ParseVector from the ] on
VectorClose(fr, fs, ss, b) ==
  LET top == Top(fr)
      em == VectorEmit(fs, ss, b, top.n)
  IN IF em.status # "ok" THEN Out(em.status, em.msg, "", fr, em.fs, em.ss, em.b)
     ELSE Return(Pop(fr), em.fs, em.ss,
                 Called(em.b, Call("EndVector", Null, Null, top.n, 0)),
                 Len(em.b.calls) + 1)

\* ----------------------------------------------------- value parser actions
ApplyOut(o) ==
  /\ field_stack_' = o.field_stack
  /\ struct_stack_' = o.struct_stack
  /\ builder_' = o.builder
  /\ IF o.status = "fail" THEN Fail(o.msg, o.arg)
     ELSE /\ frames' = o.frames
          /\ pc' = IF o.status = "crash" THEN "crashed"
                   ELSE IF o.frames = <<>> THEN "top" ELSE "value"
          /\ UNCHANGED <<error_, result, cur>>
  /\ UNCHANGED <<structs_, enums_, root_struct_def, line_, nparse>>

\* a check for the root type only
ObjectErrorRootOnly ==
  IF root_struct_def = Null THEN "no root type set to parse json with" ELSE ""

\* Parse: the two checks made at a { of the top level
ObjectError ==
  IF root_struct_def = Null THEN "no root type set to parse json with"
  ELSE IF builder_.used THEN "cannot have more than one json object in a file"
  ELSE ""

\* Parse: a { at the top level starts the root object
ObjectOpenStmt ==
  /\ pc = "top"
  /\ IF ObjectError # "" THEN Fail(ObjectError, "")
     ELSE /\ frames' = <<TableFrame(root_struct_def)>>
          /\ pc' = "value"
          /\ UNCHANGED <<error_, result, cur>>
  /\ UNCHANGED <<structs_, enums_, root_struct_def, builder_, field_stack_,
                 struct_stack_, line_, nparse>>
  /\ UNCHANGED lexvars

\* the value parser reads a comma after a value or an element
Comma(o) ==
  LET top == Top(o.frames)
  IN [o EXCEPT !.frames = SetTop(o.frames,
        [top EXCEPT !.expect = IF top.kind = "table" THEN "key" ELSE "elem"])]

\* The tokens of an object literal: a key with the start of its value, the
\* start of a vector element, or one of  ,  }  ]
KeyTok(key, vt) == [t |-> "key", key |-> key, vt |-> vt]
ElemTok(vt) == [t |-> "elem", key |-> "", vt |-> vt]
Punct(t) == [t |-> t, key |-> "", vt |-> PunctToken(t)]

\* the value parser reads token tk in the state o
Step(o, tk) ==
  LET top == Top(o.frames)
      unexpected == Out("fail", "expecting", tk.t, o.frames, o.field_stack,
                        o.struct_stack, o.builder)
  IN CASE top.expect = "key" ->
            IF tk.t \in {"key", "}"}
            THEN TableKey(o.frames, o.field_stack, o.struct_stack, o.builder,
                          IF tk.t = "}" THEN "}" ELSE tk.key, tk.vt)
            ELSE unexpected
       [] top.expect = "sep" ->
            IF tk.t = "}"
            THEN TableClose(o.frames, o.field_stack, o.struct_stack, o.builder)
            ELSE IF tk.t = "," THEN Comma(o) ELSE unexpected
       [] top.expect = "elem" ->
            IF tk.t = "elem"
            THEN ParseAnyValue(o.frames, o.field_stack, o.struct_stack, o.builder,
                               Entry(top.elem, 0, 0, Null, Null), tk.vt)
            ELSE IF tk.t = "]" /\ top.n = 0
            THEN VectorClose(o.frames, o.field_stack, o.struct_stack, o.builder)
            ELSE unexpected
       [] top.expect = "vsep" ->
            IF tk.t = "]"
            THEN VectorClose(o.frames, o.field_stack, o.struct_stack, o.builder)
            ELSE IF tk.t = "," THEN Comma(o) ELSE unexpected

\* ParseTable(*root_struct_def) over the tokens toks, from the i-th on, until
\* it returns, throws, or the input ends inside the literal
RECURSIVE Run(_, _, _)
Run(o, toks, i) ==
  IF o.status # "ok" \/ o.frames = <<>> THEN o
  ELSE IF i > Len(toks)
  THEN Out("fail", "expecting", "end of file", o.frames, o.field_stack,
           o.struct_stack, o.builder)
  ELSE Run(Step(o, toks[i]), toks, i + 1)

\* Parse: a whole root object literal at the top level,
\* builder_.Finish(ParseTable(*root_struct_def))
ParseObjectStmt(literals) ==
  /\ pc = "top"
  /\ IF ObjectError # ""
     THEN /\ Fail(ObjectError, "")
          /\ UNCHANGED <<structs_, enums_, root_struct_def, builder_, field_stack_,
                         struct_stack_, line_, nparse>>
     ELSE \E toks \in literals :
            ApplyOut(Run(Out("ok", "", "", <<TableFrame(root_struct_def)>>,
                             field_stack_, struct_stack_, builder_), toks, 1))
  /\ UNCHANGED lexvars

ValueInts == {0, 300}

\* the names a key of the input may be: the fields, an unknown name, or }
Keys(def) ==
  {"}", "nokey"}
    \cup (IF def # Null /\ Has(structs_, def)
          THEN {Get(structs_, def).fields[i].name : i \in DOMAIN Get(structs_, def).fields}
          ELSE {})

\* the tokens a value of that type may start with in the input
ValueTokens(type) ==
  LET base == type.base_type
      deeper == IF Len(frames) < MaxDepth THEN {PunctToken("{"), PunctToken("[")} ELSE {}
  IN IF base = "utype"
     THEN {IdentToken(Get(enums_, type.enum_def).vals[i].name) :
             i \in DOMAIN Get(enums_, type.enum_def).vals}
            \cup {IntToken(3), IntToken(300)}
     ELSE IF IsScalar(base) \/ base = "none"
     THEN {IntToken(v) : v \in ValueInts} \cup {IdentToken("A")}
     ELSE IF base = "string" THEN {PunctToken("str"), IntToken(0)}
     ELSE IF base = "vector" THEN (deeper \ {PunctToken("{")}) \cup {IntToken(0)}
     ELSE (deeper \ {PunctToken("[")}) \cup {IntToken(0)}

KeyType(def, key) ==
  IF def # Null /\ Has(structs_, def) /\ HasField(Get(structs_, def), key)
  THEN GetField(Get(structs_, def), key).type
  ELSE Type("none", Null, Null, "none")

\* ParseTable: a key, the colon and the start of the value
TableKeyStmt ==
  /\ pc = "value"
  /\ Top(frames).kind = "table" /\ Top(frames).expect = "key"
  /\ \E key \in Keys(Top(frames).def) :
       \E vt \in ValueTokens(KeyType(Top(frames).def, key)) :
         ApplyOut(TableKey(frames, field_stack_, struct_stack_, builder_, key, vt))
  /\ UNCHANGED lexvars

\* ParseTable: the comma after a value
TableCommaStmt ==
  /\ pc = "value"
  /\ Top(frames).kind = "table" /\ Top(frames).expect = "sep"
  /\ Top(frames).n < MaxEntries
  /\ frames' = Comma(Out("ok", "", "", frames, field_stack_, struct_stack_, builder_)).frames
  /\ UNCHANGED <<structs_, enums_, root_struct_def, builder_, field_stack_,
                 struct_stack_, error_, line_, pc, cur, result, nparse>>
  /\ UNCHANGED lexvars

\* ParseTable: the } after a value
TableCloseStmt ==
  /\ pc = "value"
  /\ Top(frames).kind = "table" /\ Top(frames).expect = "sep"
  /\ ApplyOut(TableClose(frames, field_stack_, struct_stack_, builder_))
  /\ UNCHANGED lexvars

\* ParseVector: the start of an element
VectorElemStmt ==
  /\ pc = "value"
  /\ Top(frames).kind = "vector" /\ Top(frames).expect = "elem"
  /\ \E vt \in ValueTokens(Top(frames).elem) :
       ApplyOut(ParseAnyValue(frames, field_stack_, struct_stack_, builder_,
                              Entry(Top(frames).elem, 0, 0, Null, Null), vt))
  /\ UNCHANGED lexvars

\* ParseVector: the comma after an element
VectorCommaStmt ==
  /\ pc = "value"
  /\ Top(frames).kind = "vector" /\ Top(frames).expect = "vsep"
  /\ Top(frames).n < MaxEntries
  /\ frames' = Comma(Out("ok", "", "", frames, field_stack_, struct_stack_, builder_)).frames
  /\ UNCHANGED <<structs_, enums_, root_struct_def, builder_, field_stack_,
                 struct_stack_, error_, line_, pc, cur, result, nparse>>
  /\ UNCHANGED lexvars

\* ParseVector: the ] of an empty vector or after an element
VectorCloseStmt ==
  /\ pc = "value"
  /\ Top(frames).kind = "vector"
  /\ Top(frames).expect = "vsep" \/ (Top(frames).expect = "elem" /\ Top(frames).n = 0)
  /\ ApplyOut(VectorClose(frames, field_stack_, struct_stack_, builder_))
  /\ UNCHANGED lexvars

\* Parse:  root_type name ;
RootTypeStmt(names) ==
  /\ pc = "top"
  /\ \E name \in names :
       /\ root_struct_def' = IF Has(structs_, name) THEN name ELSE Null
       /\ IF ~Has(structs_, name) THEN Fail("unknown root type", name)
          ELSE IF Get(structs_, name).fixed THEN Fail("root type must be a table", name)
          ELSE UNCHANGED <<error_, result, pc, cur, frames>>
  /\ UNCHANGED <<structs_, enums_, builder_, field_stack_, struct_stack_,
                 line_, nparse>>
  /\ UNCHANGED lexvars

\* ----------------------------------------------------- struct declarations
StructNames == {"S", "T"}
FieldNames == <<"x", "y", "z", "w", "v">>
ForceAligns == {NoAttr, Attr("int", 3), Attr("int", 8)}
StructFieldTypes ==
  {KeywordType("byte"), KeywordType("int")}
    \cup {NamedType(n) : n \in StructNames}

StructDecls ==
  {[DeclInput(n, TRUE) EXCEPT !.force_align = fa] : n \in StructNames, fa \in ForceAligns}

\* the next field of the body is named after its position
StructFields(sd) ==
  {FieldInput(FieldNames[Len(sd.fields) + 1], ts) : ts \in StructFieldTypes}

NextStruct ==
  \/ ParseStart
  \/ DeclBeginStmt(StructDecls)
  \/ ParseFieldStmt(StructFields(Get(structs_, cur)))
  \/ DeclEndStmt
  \/ EofStmt

SpecStruct == Init /\ [][NextStruct]_vars


\* ParseEnum(true):  union name { members }
UnionStmt(menu) ==
  /\ pc = "top"
  /\ \E ei \in menu :
       LET r == ParseEnum(structs_, enums_, ei)
       IN /\ structs_' = r.structs
          /\ enums_' = r.enums
          /\ IF r.err = ""
             THEN UNCHANGED <<error_, result, pc, cur, frames>>
             ELSE Fail(r.err, ei.name)
  /\ UNCHANGED <<root_struct_def, builder_, field_stack_, struct_stack_,
                 line_, nparse>>
  /\ UNCHANGED lexvars

\* ------------------------------------------------------- enum declarations
\* ParseEnum(false) up to the } of the body:  enum name : type metadata { values
EnumBodyStmt(menu) ==
  /\ pc = "top"
  /\ \E ei \in menu :
       LET r == ParseEnumBody(structs_, enums_, ei)
       IN /\ structs_' = r.structs
          /\ enums_' = r.enums
          /\ IF r.err = ""
             THEN /\ pc' = "enum"
                  /\ cur' = ei.name
                  /\ UNCHANGED <<error_, result, frames>>
             ELSE Fail(r.err, ei.name)
  /\ UNCHANGED <<root_struct_def, builder_, field_stack_, struct_stack_,
                 line_, nparse>>
  /\ UNCHANGED lexvars

\* ParseEnum: the } of the body and the bit_flags loop
EnumEndStmt ==
  /\ pc = "enum"
  /\ LET bf == BitFlags(Get(enums_, cur))
     IN /\ enums_' = SetDef(enums_, bf.enum)
        /\ IF bf.err = ""
           THEN /\ pc' = "top"
                /\ cur' = Null
                /\ UNCHANGED <<error_, result, frames>>
           ELSE Fail(bf.err, cur)
  /\ UNCHANGED <<structs_, root_struct_def, builder_, field_stack_, struct_stack_,
                 line_, nparse>>
  /\ UNCHANGED lexvars

\* enums E over ubyte, short, int or float, with or without bit_flags, of
\* one or two enumerators, each with or without an explicit value
EnumNames == {"E"}
EnumBases == {"ubyte", "short", "int", "float"}
EnumValues == {0, 3, 7, 8, 15, 16}
EnumVals(n) ==
  {EnumValInput(n)} \cup {[EnumValInput(n) EXCEPT !.has_value = TRUE, !.value = v] :
                            v \in EnumValues}
EnumBodies ==
  {<<a>> : a \in EnumVals("P")} \cup {<<a, b>> : a \in EnumVals("P"), b \in EnumVals("Q")}
EnumDecls ==
  {[EnumInput(n, FALSE, base, vals) EXCEPT !.bit_flags = bf] :
     n \in EnumNames, base \in EnumBases, bf \in BOOLEAN, vals \in EnumBodies}

NextEnum ==
  \/ ParseStart
  \/ EnumBodyStmt(EnumDecls)
  \/ EnumEndStmt
  \/ EofStmt

SpecEnum == Init /\ [][NextEnum]_vars

\* ------------------------------------------------------ table declarations
\* tables whose fields may carry an id attribute
IdUnions == {EnumInput("U", TRUE, "utype", <<EnumValInput("A")>>)}
IdDecls == {DeclInput("A", FALSE), DeclInput("R", FALSE)}
Ids == 0..MaxFields
IdFieldTypes == {KeywordType("int"), NamedType("U")}

\* the union member A is declared without fields, R with up to MaxFields
IdFields(sd) ==
  IF sd.name = "A" THEN {}
  ELSE {[FieldInput(FieldNames[Len(sd.fields) + 1], ts) EXCEPT !.has_id = TRUE, !.id = k] :
          ts \in IdFieldTypes, k \in Ids}
       \cup {FieldInput(FieldNames[Len(sd.fields) + 1], ts) : ts \in IdFieldTypes}

NextTable ==
  \/ ParseStart
  \/ UnionStmt(IdUnions)
  \/ DeclBeginStmt(IdDecls)
  \/ ParseFieldStmt(IdFields(Get(structs_, cur)))
  \/ DeclEndStmt
  \/ EofStmt

SpecTable == Init /\ [][NextTable]_vars

\* ------------------------------------------------------------- the parser
\* Schemas over two type names whose bodies have at most one field: an int,
\* a reference to a type, or a nested flatbuffer; one union of one member.
DriverNames == {"A", "B"}
DriverDecls == {DeclInput(n, fx) : n \in DriverNames, fx \in BOOLEAN}
DriverUnions == {EnumInput("U", TRUE, "utype", <<EnumValInput(n)>>) : n \in DriverNames}

DriverFields(sd) ==
  IF Len(sd.fields) >= 1 THEN {}
  ELSE {FieldInput("x", KeywordType("int"))}
         \cup {FieldInput("x", NamedType(n)) : n \in DriverNames}
         \cup {[FieldInput("x", VectorOf(KeywordType("ubyte"))) EXCEPT !.nested = "B"]}

\* root object literals for these schemas:  {}  {x:0}  {x:300}  {x:0,}
\* {x:300, x:0}  {x:{x:300}}  {x:{x:{x:0  {x:[]}  {x:[300]}  {x:[0,300]}
\* {nokey:0}
DriverLiterals ==
  {<<Punct("}")>>,
   <<KeyTok("x", IntToken(0)), Punct("}")>>,
   <<KeyTok("x", IntToken(300)), Punct("}")>>,
   <<KeyTok("x", IntToken(0)), Punct(","), Punct("}")>>,
   <<KeyTok("x", IntToken(300)), Punct(","), KeyTok("x", IntToken(0)), Punct("}")>>,
   <<KeyTok("x", PunctToken("{")), KeyTok("x", IntToken(300)), Punct("}"), Punct("}")>>,
   <<KeyTok("x", PunctToken("{")), KeyTok("x", PunctToken("{")), KeyTok("x", IntToken(0))>>,
   <<KeyTok("x", PunctToken("[")), Punct("]"), Punct("}")>>,
   <<KeyTok("x", PunctToken("[")), ElemTok(IntToken(300)), Punct("]"), Punct("}")>>,
   <<KeyTok("x", PunctToken("[")), ElemTok(IntToken(0)), Punct(","),
     ElemTok(IntToken(300)), Punct("]"), Punct("}")>>,
   <<KeyTok("nokey", IntToken(0)), Punct("}")>>}

Next ==
  \/ ParseStart
  \/ Newline
  \/ DeclBeginStmt(DriverDecls)
  \/ ParseFieldStmt(DriverFields(Get(structs_, cur)))
  \/ DeclEndStmt
  \/ UnionStmt(DriverUnions)
  \/ RootTypeStmt(DriverNames)
  \/ ParseObjectStmt(DriverLiterals)
  \/ EofStmt

Spec == Init /\ [][Next]_vars

\* --------------------------------------------------------- object literals
\* ParseDecl for a whole declaration: the body is the sequence of fields fis
RECURSIVE ParseFields(_, _, _, _, _)
ParseFields(tab, enums, sname, fis, i) ==
  IF i > Len(fis) THEN tab
  ELSE ParseFields(ParseField(tab, enums, sname, fis[i]).structs, enums, sname,
                   fis, i + 1)

ParseDecl(tab, enums, di, fis) ==
  LET body == ParseFields(DeclBegin(tab, di).structs, enums, di.name, fis, 1)
  IN (CHOOSE r \in DeclEnd(body, di.name) : r.err = "").structs

\* The parser after a Parse of the schema
\*   union U { A }  table A { x:int; }  struct S { x:byte; }
\*   table R { u:U; v:U; s:S; d:int (deprecated); w:[byte]; }  root_type R;
ValueUnion ==
  ParseEnumBody(<<>>, <<>>, EnumInput("U", TRUE, "utype", <<EnumValInput("A")>>))

ValueStructs ==
  LET enums == ValueUnion.enums
      a == ParseDecl(ValueUnion.structs, enums, DeclInput("A", FALSE),
                     <<FieldInput("x", KeywordType("int"))>>)
      st == ParseDecl(a, enums, DeclInput("S", TRUE),
                      <<FieldInput("x", KeywordType("byte"))>>)
  IN ParseDecl(st, enums, DeclInput("R", FALSE),
               <<FieldInput("u", NamedType("U")), FieldInput("v", NamedType("U")),
                 FieldInput("s", NamedType("S")),
                 [FieldInput("d", KeywordType("int")) EXCEPT !.deprecated = TRUE],
                 FieldInput("w", VectorOf(KeywordType("byte")))>>)

InitValue ==
  /\ LexerIdle
  /\ structs_ = ValueStructs
  /\ enums_ = ValueUnion.enums
  /\ root_struct_def = "R"
  /\ builder_ = EmptyBuilder
  /\ field_stack_ = <<>>
  /\ struct_stack_ = <<>>
  /\ error_ = NoError
  /\ line_ = 1
  /\ pc = "idle"
  /\ cur = Null
  /\ frames = <<>>
  /\ result = "none"
  /\ nparse = 0

\* Parse calls whose input holds object literals only
NextValue ==
  \/ ParseStart
  \/ ObjectOpenStmt
  \/ TableKeyStmt
  \/ TableCommaStmt
  \/ TableCloseStmt
  \/ VectorElemStmt
  \/ VectorCommaStmt
  \/ VectorCloseStmt
  \/ EofStmt

SpecValue == InitValue /\ [][NextValue]_vars

\* ----------------------------------------------------------- emit order
\* The parser inside a Parse that has read the schema
\*   struct S { a:byte; d:long; }
\*   table O (original_order) { a:byte; d:long; }
\*   table T { a:byte; b:short; d:long; s:S; o:O; }  root_type T;
\* and is at the top level
EmitStructs ==
  LET st == ParseDecl(<<>>, <<>>, DeclInput("S", TRUE),
                      <<FieldInput("a", KeywordType("byte")),
                        FieldInput("d", KeywordType("long"))>>)
      o == ParseDecl(st, <<>>, [DeclInput("O", FALSE) EXCEPT !.original_order = TRUE],
                     <<FieldInput("a", KeywordType("byte")),
                       FieldInput("d", KeywordType("long"))>>)
  IN ParseDecl(o, <<>>, DeclInput("T", FALSE),
               <<FieldInput("a", KeywordType("byte")), FieldInput("b", KeywordType("short")),
                 FieldInput("d", KeywordType("long")),
                 FieldInput("s", NamedType("S")), FieldInput("o", NamedType("O"))>>)

InitEmit ==
  /\ LexerIdle
  /\ structs_ = EmitStructs
  /\ enums_ = <<>>
  /\ root_struct_def = "T"
  /\ builder_ = EmptyBuilder
  /\ field_stack_ = <<>>
  /\ struct_stack_ = <<>>
  /\ error_ = NoError
  /\ line_ = 1
  /\ pc = "top"
  /\ cur = Null
  /\ frames = <<>>
  /\ result = "none"
  /\ nparse = 1

\* the rest of that Parse: object literals of tables and structs
NextEmit ==
  \/ ObjectOpenStmt
  \/ TableKeyStmt
  \/ TableCommaStmt
  \/ TableCloseStmt
  \/ EofStmt

SpecEmit == InitEmit /\ [][NextEmit]_vars

\* ------------------------------------------------------ integer constants
\* The parser inside a Parse that has read the schema
\*   table T { a:byte; b:ubyte; c:short; d:ushort; }  root_type T;
\* and then  { key : v  for one of the fields and an integer constant v
FitStructs ==
  ParseDecl(<<>>, <<>>, DeclInput("T", FALSE),
            <<FieldInput("a", KeywordType("byte")), FieldInput("b", KeywordType("ubyte")),
              FieldInput("c", KeywordType("short")), FieldInput("d", KeywordType("ushort"))>>)

FitKeys == {"a", "b", "c", "d"}
FitValues ==
  {-65537, -65536, -32769, -32768, -257, -256, -129, -128, -1, 0, 127, 128, 255,
   256, 32767, 32768, 65535, 65536}

InitFit ==
  /\ LexerIdle
  /\ structs_ = FitStructs
  /\ enums_ = <<>>
  /\ root_struct_def = "T"
  /\ builder_ = EmptyBuilder
  /\ struct_stack_ = <<>>
  /\ error_ = NoError
  /\ line_ = 1
  /\ pc = "value"
  /\ cur = Null
  /\ result = "none"
  /\ nparse = 1
  /\ \E key \in FitKeys, v \in FitValues :
       LET o == TableKey(<<TableFrame("T")>>, <<>>, <<>>, EmptyBuilder, key, IntToken(v))
       IN /\ frames = o.frames
          /\ field_stack_ = o.field_stack

\* the rest of that Parse: the } of the literal and the end of the input
NextFit ==
  \/ TableCloseStmt
  \/ EofStmt

SpecFit == InitFit /\ [][NextFit]_vars

\* ---------------------------------------------------------- union values
\* The parser inside a Parse that has read the schema
\*   union U { A }  table A { x:int; }  table R { u:U; w:[R]; }  root_type R;
\* and is at the top level
UnionStructs ==
  LET enums == ValueUnion.enums
      a == ParseDecl(ValueUnion.structs, enums, DeclInput("A", FALSE),
                     <<FieldInput("x", KeywordType("int"))>>)
  IN ParseDecl(a, enums, DeclInput("R", FALSE),
               <<FieldInput("u", NamedType("U")),
                 FieldInput("w", VectorOf(NamedType("R")))>>)

InitUnion ==
  /\ LexerIdle
  /\ structs_ = UnionStructs
  /\ enums_ = ValueUnion.enums
  /\ root_struct_def = "R"
  /\ builder_ = EmptyBuilder
  /\ field_stack_ = <<>>
  /\ struct_stack_ = <<>>
  /\ error_ = NoError
  /\ line_ = 1
  /\ pc = "top"
  /\ cur = Null
  /\ frames = <<>>
  /\ result = "none"
  /\ nparse = 1

\* the rest of that Parse: an object literal and the end of the input
NextUnion ==
  \/ ObjectOpenStmt
  \/ TableKeyStmt
  \/ TableCommaStmt
  \/ TableCloseStmt
  \/ VectorElemStmt
  \/ VectorCommaStmt
  \/ VectorCloseStmt
  \/ EofStmt

SpecUnion == InitUnion /\ [][NextUnion]_vars

\* ------------------------------------------------------ nested literals
\* The parser inside a Parse that has read the schema
\*   struct S { x:byte; }  table A { x:byte; }
\*   table R { s:S; w:[A]; }  root_type R;
\* and is at the top level
StackStructs ==
  LET st == ParseDecl(<<>>, <<>>, DeclInput("S", TRUE),
                      <<FieldInput("x", KeywordType("byte"))>>)
      a == ParseDecl(st, <<>>, DeclInput("A", FALSE),
                     <<FieldInput("x", KeywordType("byte"))>>)
  IN ParseDecl(a, <<>>, DeclInput("R", FALSE),
               <<FieldInput("s", NamedType("S")),
                 FieldInput("w", VectorOf(NamedType("A")))>>)

InitStack ==
  /\ LexerIdle
  /\ structs_ = StackStructs
  /\ enums_ = <<>>
  /\ root_struct_def = "R"
  /\ builder_ = EmptyBuilder
  /\ field_stack_ = <<>>
  /\ struct_stack_ = <<>>
  /\ error_ = NoError
  /\ line_ = 1
  /\ pc = "top"
  /\ cur = Null
  /\ frames = <<>>
  /\ result = "none"
  /\ nparse = 1

\* the rest of that Parse: an object literal and the end of the input
NextStack ==
  \/ ObjectOpenStmt
  \/ TableKeyStmt
  \/ TableCommaStmt
  \/ TableCloseStmt
  \/ VectorElemStmt
  \/ VectorCommaStmt
  \/ VectorCloseStmt
  \/ EofStmt

SpecStack == InitStack /\ [][NextStack]_vars

\* ------------------------------------------------------------------ lexer
\* Parser::Next over the characters  - + . e space  and the digits; the
\* identifiers these characters spell are no keywords.
Digits == {"0", "1", "2", "3", "4", "5", "6", "7", "8", "9"}
Letters == {"e", "E"}

\* *cursor_ : the character at index i, the terminating NUL past the end
CharAt(src, i) == IF i \in DOMAIN src THEN src[i] ELSE "NUL"

\* while (isdigit(*cursor_)) cursor_++
RECURSIVE SkipDigits(_, _)
SkipDigits(src, i) ==
  IF CharAt(src, i) \in Digits THEN SkipDigits(src, i + 1) ELSE i

\* while (isalnum(*cursor_) || *cursor_ == '_') cursor_++
RECURSIVE SkipAlnum(_, _)
SkipAlnum(src, i) ==
  IF CharAt(src, i) \in Digits \cup Letters THEN SkipAlnum(src, i + 1) ELSE i

Tok(token, attribute, cursor, err) ==
  [token |-> token, attribute |-> attribute, cursor |-> cursor, err |-> err]

\* the numeric branch of Next; start is the index of the first character
LexNumber(src, start) ==
  LET d1 == SkipDigits(src, start + 1)
      d2 == SkipDigits(src, d1 + 1)
      t == IF CharAt(src, d2) \in {"e", "E"} THEN d2 + 1 ELSE d2
      u == IF t > d2 /\ CharAt(src, t) \in {"+", "-"} THEN t + 1 ELSE t
      d3 == IF t > d2 THEN SkipDigits(src, u) ELSE d2
  IN IF CharAt(src, d1) = "."
     THEN Tok("FloatConstant", SubSeq(src, start, d3 - 1), d3, "")
     ELSE Tok("IntegerConstant", SubSeq(src, start, d1 - 1), d1, "")

\* Parser::Next with the cursor at index i
RECURSIVE Lex(_, _, _)
Lex(src, i, attribute) ==
  LET c == CharAt(src, i)
  IN CASE c = "NUL" -> Tok("Eof", attribute, i, "")
       [] c = " " -> Lex(src, i + 1, attribute)
       [] c = "." ->
            IF CharAt(src, i + 1) \in Digits
            THEN Tok(".", attribute, i + 1, "floating point constant can't start with \".\"")
            ELSE Tok(".", attribute, i + 1, "")
       [] c \in Letters ->
            Tok("Identifier", SubSeq(src, i, SkipAlnum(src, i + 1) - 1),
                SkipAlnum(src, i + 1), "")
       [] c \in Digits \cup {"-"} -> LexNumber(src, i)
       [] OTHER -> Tok(c, attribute, i + 1, "illegal character")

\* a call of Next while the source is being read
NextStmt ==
  /\ pc = "lex"
  /\ token_ # "Eof"
  /\ LET r == Lex(source_, cursor_, attribute_)
     IN /\ token_' = r.token
        /\ attribute_' = r.attribute
        /\ cursor_' = r.cursor
        /\ IF r.err # "" THEN Fail(r.err, "")
           ELSE UNCHANGED <<error_, result, pc, cur, frames>>
  /\ UNCHANGED <<structs_, enums_, root_struct_def, builder_, field_stack_,
                 struct_stack_, line_, nparse, source_>>

\* the source texts: every string of up to MaxSource of these characters
SourceChars == {"-", "+", ".", "e", "1", " "}
Sources == UNION {[1..n -> SourceChars] : n \in 0..MaxSource}

\* Parse(source) has set source_ and cursor_ and is about to call Next
InitLex ==
  /\ source_ \in Sources
  /\ cursor_ = 1
  /\ token_ = "none"
  /\ attribute_ = <<>>
  /\ structs_ = <<>>
  /\ enums_ = <<>>
  /\ root_struct_def = Null
  /\ builder_ = EmptyBuilder
  /\ field_stack_ = <<>>
  /\ struct_stack_ = <<>>
  /\ error_ = NoError
  /\ line_ = 1
  /\ pc = "lex"
  /\ cur = Null
  /\ frames = <<>>
  /\ result = "none"
  /\ nparse = 1

NextLex == NextStmt

SpecLex == InitLex /\ [][NextLex]_vars

\* ------------------------------------------------------------------ claims
\* ParseDecl returns normally: the step from the body to the driver loop
DeclAccepted == pc = "decl" /\ pc' = "top"

EndOf(tab, sd, i) == sd.fields[i].offset + InlineSize(tab, sd.fields[i].type)

LayoutOK(tab, sname) ==
  LET sd == Get(tab, sname)
      n == Len(sd.fields)
  IN /\ sd.bytesize % sd.minalign = 0
     /\ \A i \in 1..n :
          /\ sd.fields[i].offset % InlineAlignment(tab, sd.fields[i].type) = 0
          /\ i < n => sd.fields[i + 1].offset - sd.fields[i].offset
                        >= InlineSize(tab, sd.fields[i].type)
          /\ sd.fields[i].padding =
               (IF i < n THEN sd.fields[i + 1].offset ELSE sd.bytesize)
                 - EndOf(tab, sd, i)

\* C1: every struct that ParseDecl accepts has bytesize a multiple of
\* minalign, every field at a multiple of its inline alignment, consecutive
\* fields at least size(f_i) apart, and the padding of a field equal to the
\* gap to the next field (or to the end of the struct).
C1_StructLayout ==
  [][(DeclAccepted /\ Get(structs_, cur).fixed) => LayoutOK(structs_', cur)]_vars

IsUnionField(f) == f.type.base_type = "union"
FieldIds(sd) == {sd.fields[i].id : i \in DOMAIN sd.fields}

IdsOK(sd) ==
  (\E i \in DOMAIN sd.fields : sd.fields[i].has_id) =>
    /\ \A i \in DOMAIN sd.fields : sd.fields[i].has_id
    /\ FieldIds(sd) = 0..(Len(sd.fields) - 1)
    /\ \A i \in DOMAIN sd.fields :
         /\ sd.fields[i].offset = FieldIndexToOffset(sd.fields[i].id)
         /\ IsUnionField(sd.fields[i]) =>
              /\ HasField(sd, sd.fields[i].name \o "_type")
              /\ GetField(sd, sd.fields[i].name \o "_type").id = sd.fields[i].id - 1

\* C2: in every table that ParseDecl accepts and in which some field has an
\* id, every field has one, the ids are exactly 0..N-1, every vtable offset
\* is FieldIndexToOffset(id), and the type field of a union field with id k
\* has id k-1 (so partial ids, and id 0 on a union field, are rejected).
C2_IdsContiguous ==
  [][(DeclAccepted /\ ~Get(structs_, cur).fixed) => IdsOK(Get(structs_', cur))]_vars

\* an accepted table with ids on all of its fields, a union field among
\* them, whose third declared field has id 0
C2_Witness ==
  /\ nparse = 1 /\ pc = "top"
  /\ \E k \in DOMAIN structs_ :
       LET sd == structs_[k]
       IN /\ ~sd.predecl /\ ~sd.fixed /\ Len(sd.fields) >= 3
          /\ \A i \in DOMAIN sd.fields : sd.fields[i].has_id
          /\ \E i \in DOMAIN sd.fields : IsUnionField(sd.fields[i])
          /\ \E i \in DOMAIN sd.fields :
               sd.fields[i].name = FieldNames[3] /\ sd.fields[i].id = 0

\* --------------------------------------------------------------------- C3
Predecls(tab) == {tab[i].name : i \in {j \in DOMAIN tab : tab[j].predecl}}

\* C3: Parse never returns success while a StructDef of the registry is
\* still predecl, and the failure "type referenced but not defined" names a
\* StructDef that was referenced and never declared.
C3_NoPredeclOnSuccess ==
  /\ result \in {"true", "abort"} => Predecls(structs_) = {}
  /\ (result = "false" /\ error_.msg = "type referenced but not defined")
       => error_.arg \in Predecls(structs_)

\* a Parse that succeeded on a schema in which a table refers, as a field
\* type, to a table declared after it
C3_Witness ==
  /\ result = "true" /\ nparse = 1
  /\ \E i, j \in DOMAIN structs_ :
       /\ i < j
       /\ ~structs_[i].fixed /\ ~structs_[j].fixed
       /\ \E k \in DOMAIN structs_[i].fields :
            structs_[i].fields[k].type.struct_def = structs_[j].name

\* --------------------------------------------------------------------- C4
\* C4: when Parse has returned success and a root type is set, the root
\* type is a declared table: not a struct, and not a name that was only
\* referenced.
C4_RootIsDeclaredTable ==
  (result = "true" /\ root_struct_def # Null)
    => /\ Has(structs_, root_struct_def)
       /\ ~Get(structs_, root_struct_def).fixed
       /\ ~Get(structs_, root_struct_def).predecl

\* --------------------------------------------------------------------- C5
\* ParseTable calls ParseAnyValue for a union field and that call reaches
\* ParseTable for the payload
UnionPayloadOpens ==
  /\ pc = "value" /\ pc' = "value"
  /\ Top(frames).kind = "table"
  /\ Len(frames') = Len(frames) + 1
  /\ KeyType(Top(frames).def, frames'[Len(frames)].pfield).base_type = "union"

\* C5: the payload of a union field is parsed only if the entry most
\* recently pushed on field_stack_ was pushed by the same object literal and
\* is the field's own <name>_type tag.
C5_OwnTagPrecedes ==
  [][UnionPayloadOpens
       => /\ Top(frames).n >= 1
          /\ field_stack_[Len(field_stack_)].field
               = frames'[Len(frames)].pfield \o "_type"]_vars

\* --------------------------------------------------------------------- C6
\* C6: a } read where the first key of an object literal would be is not
\* rejected.
C6_EmptyObject ==
  [][(pc = "value" /\ Top(frames).kind = "table" /\ Top(frames).expect = "key"
        /\ Top(frames).n = 0)
       => ~(result' = "false"
              /\ error_'.msg = "expecting: identifier instead got: }")]_vars

\* --------------------------------------------------------------------- C7
\* C7: the builder receives no call that stores a value for a deprecated
\* field.
C7_DeprecatedNotSerialized ==
  \A i \in DOMAIN builder_.calls :
    LET c == builder_.calls[i]
    IN (c.op \in {"AddElement", "AddOffset", "AddStruct"} /\ c.stored)
         => ~GetField(Get(structs_, c.sdef), c.field).deprecated

\* --------------------------------------------------------------------- C8
\* C8: when Parse has returned failure the builder holds no finished
\* buffer.
C8_NoBufferOnFailure ==
  result = "false" => builder_.roots = 0

\* --------------------------------------------------------------------- C9
\* C9: when Parse has returned success, struct_stack_ is empty.
C9_StructStackEmpty ==
  result = "true" => struct_stack_ = <<>>

\* -------------------------------------------------------------------- C10
\* C10: a step of Parse finishes a root object only if a root type is set
\* and the builder is empty, so at most one object is finished per Parse; a
\* { at the top level fails when no root type is set or when the builder
\* already holds a finished object.
C10_OneRootObject ==
  [][/\ builder_'.roots > builder_.roots
          => (root_struct_def # Null /\ builder_.roots = 0 /\ builder_'.roots = 1)
     /\ (pc = "top" /\ (root_struct_def = Null \/ builder_.roots > 0)
           /\ (pc' = "value" \/ builder_'.calls # builder_.calls))
          => FALSE]_vars

\* a second { was rejected after an object was finished and after a
\* declaration made later in the same Parse
C10_Witness ==
  /\ result = "false"
  /\ error_.msg = "cannot have more than one json object in a file"
  /\ builder_.roots = 1
  /\ Len(structs_) >= 2
  /\ structs_[Len(structs_)].name # root_struct_def
  /\ ~structs_[Len(structs_)].predecl

\* -------------------------------------------------------------------- C11
\* ParseEnum returns normally from an enum declared with bit_flags
FlagsAccepted == pc = "enum" /\ pc' = "top" /\ Get(enums_, cur).bit_flags

BitWidth(e) == SizeOf(e.base_type) * 8

\* each value after the rewrite is 1 << v, v the value before it
Rewritten(before, after) ==
  /\ Len(after.vals) = Len(before.vals)
  /\ \A i \in DOMAIN before.vals : after.vals[i].value = 2 ^ (before.vals[i].value)

\* C11 (as stated): for every bit_flags enum that ParseEnum accepts, each
\* value after the rewrite is 1 << v and every value after the rewrite is
\* below the bit width of the underlying type.
C11_FlagsBelowWidthAfter ==
  [][FlagsAccepted
       => /\ Rewritten(Get(enums_, cur), Get(enums_', cur))
          /\ \A i \in DOMAIN Get(enums_', cur).vals :
               Get(enums_', cur).vals[i].value < BitWidth(Get(enums_', cur))]_vars

\* C11 (amended): for every bit_flags enum that ParseEnum accepts, each
\* value after the rewrite is 1 << v, and every value v before the rewrite
\* is in 0 .. bit width - 1 (so every value after it is a single bit of the
\* underlying type).
C11_FlagsBelowWidthBefore ==
  [][FlagsAccepted
       => /\ Rewritten(Get(enums_, cur), Get(enums_', cur))
          /\ \A i \in DOMAIN Get(enums_, cur).vals :
               Get(enums_, cur).vals[i].value \in 0..(BitWidth(Get(enums_, cur)) - 1)]_vars

\* an accepted bit_flags enum over ubyte with the flags 1 << 3 and 1 << 7
C11_Witness ==
  /\ pc = "top"
  /\ \E k \in DOMAIN enums_ :
       /\ enums_[k].bit_flags /\ enums_[k].base_type = "ubyte"
       /\ Len(enums_[k].vals) = 2
       /\ enums_[k].vals[1].value = 8
       /\ enums_[k].vals[2].value = 128

\* -------------------------------------------------------------------- C12
\* ParseTable returns normally to its caller
TableReturns ==
  /\ pc = "value" /\ Top(frames).kind = "table" /\ Top(frames).expect = "sep"
  /\ Len(frames') = Len(frames) - 1
  /\ pc' \in {"value", "top"}

\* the entries the returning ParseTable pushed, in the order of the literal
Pushed == LastN(field_stack_, Top(frames).n)

\* the calls with which the returning ParseTable emitted entries
Emitted ==
  SelectSeq(SubSeq(builder_'.calls, Len(builder_.calls) + 1, Len(builder_'.calls)),
            LAMBDA c : c.op \in {"AddElement", "AddOffset", "AddStruct"})

\* entry i of the literal is emitted before entry j
EmittedBefore(sortbysize, i, j) ==
  LET si == SizeOf(Pushed[i].type.base_type)
      sj == SizeOf(Pushed[j].type.base_type)
  IN IF sortbysize THEN si > sj \/ (si = sj /\ i > j) ELSE i > j

\* C12: a ParseTable that returns has emitted every entry it pushed exactly
\* once: by non-increasing size of the base type and, within one size, in
\* reverse order of the literal when sortbysize is set; in reverse order of
\* the literal otherwise.
C12_EmitOrder ==
  [][TableReturns
       => /\ Len(Emitted) = Top(frames).n
          /\ \E p \in Orders(Top(frames).n) :
               /\ \A k \in DOMAIN Emitted :
                    /\ Emitted[k].field = Pushed[p[k]].field
                    /\ Emitted[k].sdef = Pushed[p[k]].sdef
               /\ \A k, l \in DOMAIN Emitted :
                    k < l => EmittedBefore(Get(structs_, Top(frames).def).sortbysize,
                                           p[k], p[l])]_vars

\* the finished root object T took the entries a then d: d (8 bytes) was
\* emitted before a (1 byte)
C12_Witness ==
  /\ pc = "top" /\ builder_.roots = 1
  /\ Len(builder_.calls) = 3
  /\ builder_.calls[1].op = "AddElement" /\ builder_.calls[1].field = "d"
  /\ builder_.calls[2].op = "AddElement" /\ builder_.calls[2].field = "a"
  /\ builder_.calls[3].op = "EndTable" /\ builder_.calls[3].sdef = "T"

\* -------------------------------------------------------------------- C13
\* index of the first character Next looks at that is no blank
RECURSIVE SkipBlanks(_, _)
SkipBlanks(src, i) == IF CharAt(src, i) = " " THEN SkipBlanks(src, i + 1) ELSE i

\* The numeric literal of the stated form that starts at index i: optional
\* -, digits, optional . and digits, optional e or E with optional sign and
\* digits. ok is whether there is one (at least one digit), end the index
\* after it.
Literal(src, i) ==
  LET s0 == IF CharAt(src, i) = "-" THEN i + 1 ELSE i
      d1 == SkipDigits(src, s0)
      d2 == IF CharAt(src, d1) = "." THEN SkipDigits(src, d1 + 1) ELSE d1
      u0 == IF CharAt(src, d2 + 1) \in {"+", "-"} THEN d2 + 2 ELSE d2 + 1
      exp == CharAt(src, d2) \in {"e", "E"} /\ SkipDigits(src, u0) > u0
      end == IF exp THEN SkipDigits(src, u0) ELSE d2
  IN [ok |-> d1 > s0, end |-> end, float |-> d2 > d1 \/ exp]

\* Next is called with a - or a digit as the next character that is no blank
NumberStarts ==
  /\ pc = "lex" /\ token_ # "Eof"
  /\ CharAt(source_, SkipBlanks(source_, cursor_)) \in Digits \cup {"-"}

\* C13: Next turns a numeric literal into one token whose attribute is the
\* whole text of the literal, FloatConstant if it has a . or an exponent and
\* IntegerConstant otherwise; a - without a digit after it gives no numeric
\* token.
C13_NumericToken ==
  [][NumberStarts
       => LET i == SkipBlanks(source_, cursor_)
              lit == Literal(source_, i)
          IN IF lit.ok
             THEN /\ token_' = IF lit.float THEN "FloatConstant" ELSE "IntegerConstant"
                  /\ attribute_' = SubSeq(source_, i, lit.end - 1)
                  /\ cursor_' = lit.end
             ELSE token_' \notin {"FloatConstant", "IntegerConstant"}]_vars

\* -------------------------------------------------------------------- C14
\* ParseTable is about to emit its only entry, a constant for a field of an
\* integer type of 8 or 16 bits
SmallIntEmits ==
  /\ pc = "value" /\ Top(frames).kind = "table" /\ Top(frames).expect = "sep"
  /\ Top(frames).n = 1
  /\ IsInteger(field_stack_[Len(field_stack_)].type.base_type)
  /\ SizeOf(field_stack_[Len(field_stack_)].type.base_type) \in {1, 2}

\* C14: a constant for a field of a b-bit integer type passes CheckBitsFit
\* exactly if it is in -2^(b-1) .. 2^b - 1; otherwise the parse fails with
\* "constant does not fit".
C14_FitsRange ==
  [][SmallIntEmits
       => LET e == field_stack_[Len(field_stack_)]
              b == SizeOf(e.type.base_type) * 8
          IN IF e.constant \in (0 - 2 ^ (b - 1))..(2 ^ b - 1)
             THEN pc' = "top"
             ELSE result' = "false" /\ error_'.msg = "constant does not fit"]_vars

\* -------------------------------------------------------------------- C15
\* C15: parsing a union value never dereferences a null pointer: the top entry
\* of field_stack_ that ParseAnyValue inspects has a FieldDef, and the
\* enumerator selected by the type tag has a struct_def, so the parser never
\* stops anywhere but in a reported error or a finished parse.
C15_NoNullDereference == pc # "crashed"

\* the dereference of the null FieldDef of an entry pushed by ParseVector
C15_NoNullFieldDef ==
  [][pc' = "crashed" => ~(field_stack_ # <<>> /\ field_stack_[Len(field_stack_)].field = Null)]_vars

\* the dereference of the null struct_def of the enumerator NONE
C15_NoNullStructDef ==
  [][pc' = "crashed" => Top(frames).def # Null]_vars

\* -------------------------------------------------------------------- C16
\* the entries pushed by the calls of ParseTable and ParseVector in progress
RECURSIVE Counted(_)
Counted(fr) == IF fr = <<>> THEN 0 ELSE Top(fr).n + Counted(Pop(fr))

\* the length of field_stack_ when the innermost call in progress was entered
AtEntry == Len(field_stack_) - Top(frames).n

\* the innermost ParseTable or ParseVector returns normally
Returns == pc = "value" /\ pc' \in {"value", "top"} /\ Len(frames') < Len(frames)

\* C16: a call of ParseTable or ParseVector that returns normally leaves
\* field_stack_ as it was when the call was entered (its caller then pushes
\* the one entry of the value), at any depth: no step of a call touches the
\* entries below its own, the entries above them are exactly those the calls
\* in progress have pushed, and a return pops all of its own; and
\* field_stack_ is empty when a Parse that started with it empty returns
\* success.
C16_StackBalanced ==
  /\ [](pc = "value" => Len(field_stack_) = Counted(frames))
  /\ [][pc = "value" /\ pc' \in {"value", "top"}
          => /\ Len(field_stack_') >= AtEntry
             /\ SubSeq(field_stack_', 1, AtEntry) = SubSeq(field_stack_, 1, AtEntry)]_vars
  /\ [][Returns
          => Len(field_stack_') = AtEntry + (IF Len(frames) = 1 THEN 0 ELSE 1)]_vars
  /\ [](result = "true" => field_stack_ = <<>>)

\* inside a vector of tables or structs the second element has returned while
\* the entry of the first was on field_stack_
C16_Witness ==
  /\ pc = "value" /\ Len(frames) = 2
  /\ Top(frames).kind = "vector" /\ Top(frames).n = 2
  /\ Top(frames).elem.base_type = "struct"
  /\ Len(field_stack_) = 2

====
